---- MODULE Spec2Model ----
(***************************************************************************)
(* Model of testapp.py: the delimiter sniffer (detect_delimiter), the      *)
(* robust table reader (try_read_table) and the page script that loads,    *)
(* maps, standardizes, merges, filters and offers the download.            *)
(*                                                                         *)
(* Bytes and decoded characters are code points (numbers).  Cell text is a *)
(* sequence of one-character strings.  A script run is a walk of the       *)
(* program counter pc through the sections of the script; st.stop() ends   *)
(* the run at pc = "stopped".                                              *)
(***************************************************************************)
EXTENDS Integers, Sequences, FiniteSets, TLC

VARIABLES
    \* ---- detect_delimiter, run on its own (SpecSniff)
    sample_bytes,   \* the argument of detect_delimiter
    dialect,        \* what csv.Sniffer().sniff yields on the decoded sample
    sniffed,        \* [done, delim]: the value detect_delimiter returned
    \* ---- try_read_table, run on its own (SpecRead)
    uploaded_file,  \* the argument of try_read_table
    read_dialect,   \* what csv.Sniffer().sniff yields on that file's sample
    read_result,    \* [done, df, err, attempts]: what try_read_table returned
    \* ---- the page script (Spec)
    files,          \* label -> the file in that uploader, or NoFile
    pc,             \* section of the script the run is in
    idx,            \* position of the running for-loop
    delim,          \* local of try_read_table between sniffing and parsing
    uploaded_items, \* list of [label, df, fname]
    mapped_frames,  \* list of [label, df]
    clean_frames,   \* list of df
    combined,       \* the concatenated table, or NoTable
    df_view,        \* the filtered copy shown to the user, or NoTable
    csv,            \* the bytes handed to the download button, or NoCsv
    messages,       \* st.info / st.error / st.warning calls, in order
    selection,      \* label -> the three selectbox values the run read
    journey,        \* label -> the stages that upload went through in this run
    merged          \* the table as pd.concat returned it (history variable)

sniffVars == <<sample_bytes, dialect, sniffed>>
readVars == <<uploaded_file, read_dialect, read_result>>
pageVars == <<files, pc, idx, delim, uploaded_items, mapped_frames, clean_frames,
              combined, df_view, csv, messages, selection, journey, merged>>
vars == <<sniffVars, readVars, pageVars>>

-----------------------------------------------------------------------------
(* Bounds of the model *)

\* longest byte sample given to detect_delimiter on its own
MaxSample == 3
\* longest file content given to try_read_table on its own
MaxData == 2
\* number of data rows of every uploaded table of the page script
MaxRows == 2

-----------------------------------------------------------------------------
(* Generic helpers *)

Range(s) == {s[i] : i \in 1..Len(s)}

Take(s, n) == IF Len(s) <= n THEN s ELSE SubSeq(s, 1, n)

SeqsUpTo(S, n) == UNION {[1..k -> S] : k \in 0..n}

Last(s) == s[Len(s)]

-----------------------------------------------------------------------------
(* Bytes and codecs *)

COMMA == 44
SEMICOLON == 59
TAB == 9
PIPE == 124

\* bytes the samples are built from: the four candidate delimiters, a letter,
\* 0xC3 (a UTF-8 lead byte) and 0x81 (a UTF-8 continuation byte that cp1252
\* leaves undefined)
Bytes == {COMMA, SEMICOLON, TAB, PIPE, 97, 195, 129}

NoText == [ok |-> FALSE, text |-> <<>>]

RECURSIVE Utf8From(_, _)
\* bytes.decode("utf-8"), strict, from position i on
Utf8From(b, i) ==
    IF i > Len(b) THEN [ok |-> TRUE, text |-> <<>>]
    ELSE IF b[i] < 128
         THEN LET r == Utf8From(b, i + 1)
              IN  IF r.ok THEN [ok |-> TRUE, text |-> <<b[i]>> \o r.text] ELSE NoText
    ELSE IF /\ b[i] >= 194 /\ b[i] <= 223
            /\ i + 1 <= Len(b) /\ b[i + 1] >= 128 /\ b[i + 1] <= 191
         THEN LET r == Utf8From(b, i + 2)
                  cp == (b[i] - 192) * 64 + (b[i + 1] - 128)
              IN  IF r.ok THEN [ok |-> TRUE, text |-> <<cp>> \o r.text] ELSE NoText
    ELSE NoText

DecodeUtf8(b) == Utf8From(b, 1)

\* bytes.decode("latin1"): every byte is its own code point, never fails
DecodeLatin1(b) == [ok |-> TRUE, text |-> b]

\* bytes cp1252 leaves undefined (Python raises on them)
Cp1252Undefined == {129, 141, 143, 144, 157}

Decodable(enc, b) ==
    CASE enc = "utf-8"  -> DecodeUtf8(b).ok
      [] enc = "latin1" -> DecodeLatin1(b).ok
      [] enc = "cp1252" -> Range(b) \cap Cp1252Undefined = {}

-----------------------------------------------------------------------------
(* detect_delimiter *)

NoDialect == 0

\* text of the sample: utf-8, else latin1
SampleText(b) ==
    IF DecodeUtf8(b).ok THEN DecodeUtf8(b) ELSE DecodeLatin1(b)

\* What csv.Sniffer().sniff(text) can yield: it raises (NoDialect) or returns a
\* dialect whose delimiter is a character of the text; on empty text it raises.
SniffOutcomes(text) == {NoDialect} \cup Range(text)

FallbackDelimiters == <<COMMA, SEMICOLON, TAB, PIPE>>

RECURSIVE FirstPresent(_, _, _)
\* the for-loop over [",", ";", "\t", "|"] with its default
FirstPresent(ds, i, text) ==
    IF i > Len(ds) THEN COMMA
    ELSE IF ds[i] \in Range(text) THEN ds[i]
    ELSE FirstPresent(ds, i + 1, text)

\* a faulty variant: the candidates are tried in another order
FirstPresentSwapped(ds, i, text) ==
    IF SEMICOLON \in Range(text) THEN SEMICOLON
    ELSE IF COMMA \in Range(text) THEN COMMA
    ELSE IF TAB \in Range(text) THEN TAB
    ELSE IF PIPE \in Range(text) THEN PIPE
    ELSE COMMA

FallbackDelimiter(ds, i, text) == FirstPresent(ds, i, text)

\* d is the outcome of the sniffer on text[:4096]
DetectDelimiter(b, d) ==
    LET dec == SampleText(b)
    IN  IF ~dec.ok THEN COMMA
        ELSE IF d # NoDialect THEN d
        ELSE FallbackDelimiter(FallbackDelimiters, 1, dec.text)

-----------------------------------------------------------------------------
(* try_read_table *)

Encodings == <<"utf-8", "latin1", "cp1252">>

NoTable == [cols |-> <<"-">>, rows |-> <<>>]
NoError == <<>>

\* a faulty variant: only ".xls" counts as a spreadsheet
IsXls(name) == name = "xls"

\* name.endswith((".xls", ".xlsx")); a name is modelled by its extension
IsExcel(name) == name \in {"xls", "xlsx"}

\* one pd.read_csv attempt: decode under enc, then parse; f.ok holds the
\* (encoding, mode) pairs under which the parser accepts the decoded text
AttemptOk(f, enc, mode) == Decodable(enc, f.data) /\ <<enc, mode>> \in f.ok

AttemptError(f, enc, mode) ==
    IF Decodable(enc, f.data) THEN <<"ParserError", enc, mode>>
    ELSE <<"UnicodeDecodeError", enc>>

RECURSIVE TryEncodings(_, _, _, _)
\* the for-loop over the encodings; tried logs the attempts made so far
TryEncodings(f, i, last_err, tried) ==
    IF i > Len(Encodings)
    THEN [df |-> NoTable, err |-> <<"Failed to parse file. Last error">> \o last_err,
          attempts |-> tried]
    ELSE LET enc == Encodings[i]
         IN  IF AttemptOk(f, enc, "sniffed")
             THEN [df |-> f.table, err |-> NoError,
                   attempts |-> Append(tried, <<enc, "sniffed">>)]
             ELSE IF AttemptOk(f, enc, "auto")
             THEN [df |-> f.table, err |-> NoError,
                   attempts |-> tried \o <<<<enc, "sniffed">>, <<enc, "auto">>>>]
             ELSE TryEncodings(f, i + 1, AttemptError(f, enc, "sniffed"),
                               tried \o <<<<enc, "sniffed">>, <<enc, "auto">>>>)

RECURSIVE TryEncodingsAutoFirst(_, _, _, _)
\* a faulty variant: under each encoding the auto-inferred attempt is made first
TryEncodingsAutoFirst(f, i, last_err, tried) ==
    IF i > Len(Encodings)
    THEN [df |-> NoTable, err |-> <<"Failed to parse file. Last error">> \o last_err,
          attempts |-> tried]
    ELSE LET enc == Encodings[i]
         IN  IF AttemptOk(f, enc, "auto")
             THEN [df |-> f.table, err |-> NoError,
                   attempts |-> Append(tried, <<enc, "auto">>)]
             ELSE IF AttemptOk(f, enc, "sniffed")
             THEN [df |-> f.table, err |-> NoError,
                   attempts |-> tried \o <<<<enc, "auto">>, <<enc, "sniffed">>>>]
             ELSE TryEncodingsAutoFirst(f, i + 1, AttemptError(f, enc, "auto"),
                               tried \o <<<<enc, "auto">>, <<enc, "sniffed">>>>)

ReadText(f, i, last_err, tried) == TryEncodings(f, i, last_err, tried)

\* a faulty variant: a spreadsheet that does not read gives a table and no error
ReadExcelLenient(f) == [df |-> f.table, err |-> NoError, attempts |-> <<>>]

\* pd.read_excel and the two returns around it
ReadExcel(f) ==
    IF f.xl_ok THEN [df |-> f.table, err |-> NoError, attempts |-> <<>>]
    ELSE [df |-> NoTable, err |-> <<"Excel read error">>, attempts |-> <<>>]

\* d is the outcome of the sniffer on the file's sample
TryReadTable(f, d) ==
    IF IsExcel(f.name) THEN ReadExcel(f) @@ [delim |-> NoDialect]
    ELSE ReadText(f, 1, <<>>, <<>>) @@ [delim |-> DetectDelimiter(Take(f.data, 10000), d)]

-----------------------------------------------------------------------------
(* Cells and tables *)

\* a cell is text, a parsed timestamp (seconds), or null (NaN / NaT)
Str(s) == [k |-> "str", s |-> s, t |-> 0]
Stamp(t) == [k |-> "ts", s |-> <<>>, t |-> t]
NaN == [k |-> "null", s |-> <<>>, t |-> 0]

IsNull(c) == c.k = "null"

Whitespace == {" ", "\t"}

RECURSIVE LStrip(_)
LStrip(s) == IF s # <<>> /\ Head(s) \in Whitespace THEN LStrip(Tail(s)) ELSE s

RECURSIVE RStrip(_)
RStrip(s) ==
    IF s # <<>> /\ s[Len(s)] \in Whitespace THEN RStrip(SubSeq(s, 1, Len(s) - 1)) ELSE s

\* str.strip()
Strip(s) == LStrip(RStrip(s))

\* Series.astype(str) on one cell: a null becomes the text "nan"
AsTypeStr(c) == IF c.k = "str" THEN c.s ELSE <<"n", "a", "n">>

DigitValue == ("0" :> 0) @@ ("1" :> 1) @@ ("2" :> 2) @@ ("3" :> 3) @@ ("4" :> 4)
              @@ ("5" :> 5) @@ ("6" :> 6) @@ ("7" :> 7) @@ ("8" :> 8) @@ ("9" :> 9)

DigitChar == <<"0", "1", "2", "3", "4", "5", "6", "7", "8", "9">>

\* Date-time text is two digits, day then hour.
\* pd.to_datetime(errors="coerce") on one cell: text that is no date-time and
\* nulls become NaT
ToDatetime(c) ==
    IF /\ c.k = "str" /\ Len(c.s) = 2
       /\ c.s[1] \in DOMAIN DigitValue /\ c.s[2] \in DOMAIN DigitValue
       /\ DigitValue[c.s[1]] >= 1
    THEN Stamp(DigitValue[c.s[1]] * 86400 + DigitValue[c.s[2]] * 3600)
    ELSE IF c.k = "ts" THEN c
    ELSE NaN

\* a faulty variant: text that is no date-time is left as it is (errors="ignore")
ToDatetimeKeepText(c) ==
    IF /\ c.k = "str" /\ Len(c.s) = 2
       /\ c.s[1] \in DOMAIN DigitValue /\ c.s[2] \in DOMAIN DigitValue
       /\ DigitValue[c.s[1]] >= 1
    THEN Stamp(DigitValue[c.s[1]] * 86400 + DigitValue[c.s[2]] * 3600)
    ELSE c

\* Timestamp.date(), as a day number
DateOf(t) == t \div 86400

\* how to_csv writes one cell
CellText(c) ==
    CASE c.k = "str"  -> c.s
      [] c.k = "null" -> <<>>
      [] c.k = "ts"   -> <<DigitChar[DateOf(c.t) + 1], DigitChar[(c.t % 86400) \div 3600 + 1]>>

ColIndices(df, name) == {i \in 1..Len(df.cols) : df.cols[i] = name}

HasCol(df, name) == ColIndices(df, name) # {}

ColIndex(df, name) == CHOOSE i \in ColIndices(df, name) : TRUE

\* df[name] on one row, for a column name that occurs once
Cell(df, r, name) == df.rows[r][ColIndex(df, name)]

\* df[name] = value: overwrites the column, or appends it
SetCol(df, name, value) ==
    IF HasCol(df, name)
    THEN [df EXCEPT !.rows = [r \in 1..Len(df.rows) |->
            [i \in 1..Len(df.cols) |-> IF df.cols[i] = name THEN value
                                       ELSE df.rows[r][i]]]]
    ELSE [cols |-> Append(df.cols, name),
          rows |-> [r \in 1..Len(df.rows) |-> Append(df.rows[r], value)]]

-----------------------------------------------------------------------------
(* Column mapping *)

Unselected == "--Select--"

\* the options of one selectbox
Options(df) == {Unselected} \cup Range(df.cols)

\* a faulty variant: a key given twice keeps its first value
RenameToFirst(col, cust, ts, act) ==
    IF col = cust THEN "CustomerID"
    ELSE IF col = ts THEN "Timestamp"
    ELSE IF col = act THEN "Activity"
    ELSE col

\* the dict {cust: "CustomerID", ts: "Timestamp", act: "Activity"}: a key
\* given twice keeps its last value
RenameTo(col, cust, ts, act) ==
    IF col = act THEN "Activity"
    ELSE IF col = ts THEN "Timestamp"
    ELSE IF col = cust THEN "CustomerID"
    ELSE col

\* df.rename(columns=...)
Rename(df, cust, ts, act) ==
    [df EXCEPT !.cols = [i \in 1..Len(df.cols) |-> RenameTo(df.cols[i], cust, ts, act)]]

\* the validation of the three selectbox values
MappingComplete(cust, ts, act) ==
    ~(cust = Unselected \/ ts = Unselected \/ act = Unselected)

\* a faulty variant: only the customer selector is validated
MappingCompleteCustOnly(cust, ts, act) == ~(cust = Unselected)

MappingValid(cust, ts, act) == MappingComplete(cust, ts, act)

-----------------------------------------------------------------------------
(* standardize_df *)

Canonical == <<"CustomerID", "Timestamp", "Activity">>

MissingCanonical(df) == {c \in Range(Canonical) : ~HasCol(df, c)}

\* the check of the three column names
ColumnsExist(df) == MissingCanonical(df) = {}

ParseTimestamp(c) == ToDatetime(c)

TrimCell(c) == Str(Strip(AsTypeStr(c)))

\* the two conversions standardize_df applies to a column
Converted(how, c) == IF how = "to_datetime" THEN ParseTimestamp(c) ELSE TrimCell(c)

\* df[name] = conversion of df[name], for a column name that occurs once
MapCol(df, name, how) ==
    [df EXCEPT !.rows = [r \in 1..Len(df.rows) |->
        [i \in 1..Len(df.cols) |-> IF df.cols[i] = name THEN Converted(how, df.rows[r][i])
                                   ELSE df.rows[r][i]]]]

Raised(df, e) == [ok |-> FALSE, df |-> df, err |-> e]

\* df[name] raises KeyError for a name that is no column, and is a DataFrame
\* for a name that occurs twice: pd.to_datetime and .str then raise.
ColumnError(df, name, twice) ==
    IF ~HasCol(df, name) THEN <<"KeyError", name>>
    ELSE IF Cardinality(ColIndices(df, name)) > 1 THEN twice
    ELSE NoError

StandardizeDf(df, source_label) ==
    IF ~ColumnsExist(df)
    THEN Raised(df, <<"Required columns missing after mapping.">>)
    ELSE LET d1 == SetCol(df, "Source", Str(<<source_label>>))
             e1 == ColumnError(d1, "Timestamp", <<"cannot assemble with duplicate keys">>)
             d2 == MapCol(d1, "Timestamp", "to_datetime")
             e2 == ColumnError(d2, "CustomerID", <<"'DataFrame' object has no attribute 'str'">>)
             d3 == MapCol(d2, "CustomerID", "strip")
             e3 == ColumnError(d3, "Activity", <<"'DataFrame' object has no attribute 'str'">>)
             d4 == MapCol(d3, "Activity", "strip")
         IN  IF e1 # NoError THEN Raised(d1, e1)
             ELSE IF e2 # NoError THEN Raised(d2, e2)
             ELSE IF e3 # NoError THEN Raised(d3, e3)
             ELSE [ok |-> TRUE, df |-> d4, err |-> NoError]

-----------------------------------------------------------------------------
(* pd.concat(clean_frames, ignore_index=True) *)

RECURSIVE AddCols(_, _, _)
AddCols(cols, more, i) ==
    IF i > Len(more) THEN cols
    ELSE AddCols(IF more[i] \in Range(cols) THEN cols ELSE Append(cols, more[i]), more, i + 1)

\* a frame's rows under the columns of the result: a column the frame lacks is null
Reindex(df, cols) ==
    [r \in 1..Len(df.rows) |->
        [i \in 1..Len(cols) |-> IF HasCol(df, cols[i]) THEN Cell(df, r, cols[i]) ELSE NaN]]

RECURSIVE ConcatFrom(_, _, _)
ConcatFrom(frames, i, acc) ==
    IF i > Len(frames) THEN acc
    ELSE LET cols == AddCols(acc.cols, frames[i].cols, 1)
         IN  ConcatFrom(frames, i + 1,
                        [cols |-> cols,
                         rows |-> Reindex(acc, cols) \o Reindex(frames[i], cols)])

RECURSIVE ConcatReversed(_, _, _)
\* a faulty variant: each frame is put in front of the rows gathered so far
ConcatReversed(frames, i, acc) ==
    IF i > Len(frames) THEN acc
    ELSE LET cols == AddCols(acc.cols, frames[i].cols, 1)
         IN  ConcatReversed(frames, i + 1,
                        [cols |-> cols,
                         rows |-> Reindex(frames[i], cols) \o Reindex(acc, cols)])

ConcatRows(frames, i, acc) == ConcatFrom(frames, i, acc)

Concat(frames) == ConcatRows(frames, 1, [cols |-> <<>>, rows |-> <<>>])

-----------------------------------------------------------------------------
(* Explore: the filtered view, and the download *)

AllChoice == <<"A", "l", "l">>

\* df[mask]: the rows whose position is in keep, in their order
SelectRows(df, keep) ==
    LET RECURSIVE From(_)
        From(r) == IF r > Len(df.rows) THEN <<>>
                   ELSE (IF r \in keep THEN <<df.rows[r]>> ELSE <<>>) \o From(r + 1)
    IN  [df EXCEPT !.rows = From(1)]

Column(df, name) == [r \in 1..Len(df.rows) |-> Cell(df, r, name)]

UniqueCustomers(df) == {c.s : c \in Range(Column(df, "CustomerID"))}

Stamps(df) == {c.t : c \in {x \in Range(Column(df, "Timestamp")) : x.k = "ts"}}

Min(S) == CHOOSE x \in S : \A y \in S : x <= y
Max(S) == CHOOSE x \in S : \A y \in S : x >= y

\* what st.date_input can return: one date, or two in order; <<>> stands for
\* date_range = None
DateRanges(df) ==
    IF Stamps(df) = {} THEN {<<>>}
    ELSE LET days == DateOf(Min(Stamps(df)))..DateOf(Max(Stamps(df)))
         IN  {<<d>> : d \in days} \cup {<<p[1], p[2]>> : p \in {q \in days \X days : q[1] <= q[2]}}

ByCustomer(df, selected_customer) ==
    IF selected_customer # AllChoice
    THEN LET ci == ColIndex(df, "CustomerID")
         IN  SelectRows(df, {r \in 1..Len(df.rows) : df.rows[r][ci].s = selected_customer})
    ELSE df

ByDates(df, date_range, has_min) ==
    IF Len(date_range) = 2 /\ has_min
    THEN LET ti == ColIndex(df, "Timestamp")
             start == date_range[1] * 86400
             end == date_range[2] * 86400 + 86400 - 1
         IN  SelectRows(df, {r \in 1..Len(df.rows) :
                               /\ df.rows[r][ti].k = "ts"
                               /\ df.rows[r][ti].t >= start /\ df.rows[r][ti].t <= end})
    ELSE df

\* df_view, from a copy of the combined table
FilterView(df, selected_customer, date_range) ==
    ByDates(ByCustomer(df, selected_customer), date_range, Stamps(df) # {})

\* DataFrame.to_csv(index=False): the header line, then one line per row
ToCsv(df) == <<df.cols>> \o [r \in 1..Len(df.rows) |->
                               [i \in 1..Len(df.cols) |-> CellText(df.rows[r][i])]]

NoCsv == <<>>

-----------------------------------------------------------------------------
(* detect_delimiter on its own *)

NotSniffed == [done |-> FALSE, delim |-> NoDialect]

SniffIdle ==
    /\ sample_bytes = <<>>
    /\ dialect = NoDialect
    /\ sniffed = NotSniffed

SniffInit ==
    /\ sample_bytes \in SeqsUpTo(Bytes, MaxSample)
    /\ dialect \in SniffOutcomes(Take(SampleText(sample_bytes).text, 4096))
    /\ sniffed = NotSniffed

\* the call detect_delimiter(sample_bytes)
DetectDelimiterCall ==
    /\ ~sniffed.done
    /\ sniffed' = [done |-> TRUE, delim |-> DetectDelimiter(sample_bytes, dialect)]
    /\ UNCHANGED <<sample_bytes, dialect>>

-----------------------------------------------------------------------------
(* try_read_table on its own *)

Attempts == {<<Encodings[i], m>> : i \in 1..Len(Encodings), m \in {"sniffed", "auto"}}

NoFile == [name |-> "", data |-> <<>>, ok |-> {}, xl_ok |-> FALSE, table |-> NoTable]

NotRead == [done |-> FALSE, df |-> NoTable, err |-> NoError, attempts |-> <<>>,
            delim |-> NoDialect]

\* the table a readable file of the reader's own runs holds
PlainTable == [cols |-> <<"a", "b">>, rows |-> << <<Str(<<"1">>), Str(<<"2">>)>> >>]

ReadableFiles ==
    [name : {"csv", "xlsx"}, data : SeqsUpTo({COMMA, SEMICOLON, 195, 129}, MaxData),
     ok : SUBSET Attempts, xl_ok : BOOLEAN, table : {PlainTable}]

ReadIdle ==
    /\ uploaded_file = NoFile
    /\ read_dialect = NoDialect
    /\ read_result = NotRead

ReadInit ==
    /\ uploaded_file \in ReadableFiles
    /\ read_dialect \in SniffOutcomes(Take(SampleText(Take(uploaded_file.data, 10000)).text, 4096))
    /\ read_result = NotRead

\* the call try_read_table(uploaded_file)
TryReadTableCall ==
    /\ ~read_result.done
    /\ read_result' = [done |-> TRUE] @@ TryReadTable(uploaded_file, read_dialect)
    /\ UNCHANGED <<uploaded_file, read_dialect>>

-----------------------------------------------------------------------------
(* The uploads of the page script *)

Labels == <<"Website", "Mobile App", "Store">>

T(s) == Str(s)

\* the rows of each source's table: CustomerID, Timestamp and Activity cells
RowPool ==
    [l \in Range(Labels) |->
        CASE l = "Website" ->
               << <<T(<<" ", "c", "1">>), T(<<"1", "0">>), T(<<"g", "o", " ">>)>>,
                  <<T(<<"c", "2">>), T(<<"T", "B", "D">>), T(<<" ", "i", "n">>)>>,
                  <<NaN, T(<<"2", "1">>), T(<<"u", "p">>)>> >>
          [] l = "Mobile App" ->
               << <<NaN, T(<<"1", "2">>), T(<<"i", "n">>)>>,
                  <<T(<<"c", "1", " ">>), T(<<"1", "1">>), NaN>>,
                  <<T(<<"c", "3">>), T(<<"T", "B", "D">>), T(<<"g", "o">>)>> >>
          [] l = "Store" ->
               << <<T(<<" ", " ">>), T(<<"T", "B", "D">>), T(<<"u", "p">>)>>,
                  <<T(<<"c", "1">>), NaN, T(<<" ", "g", "o", " ">>)>>,
                  <<T(<<"c", "2">>), T(<<"2", "0">>), T(<<"i", "n">>)>> >> ]

Columns ==
    [l \in Range(Labels) |->
        CASE l = "Website"    -> <<"uid", "event_time", "action">>
          [] l = "Mobile App" -> <<"CustomerID", "Timestamp", "Activity">>
          [] l = "Store"      -> <<"CustomerID", "when", "what">> ]

TableOf(l) ==
    [cols |-> Columns[l],
     rows |-> [r \in 1..MaxRows |-> RowPool[l][((r - 1) % Len(RowPool[l])) + 1]]]

\* the files a user can put in the uploader of a source: one that reads and
\* one that does not
Uploadable(l) ==
    CASE l = "Website" ->
           {[name |-> "csv", data |-> <<97, COMMA, 97>>, ok |-> Attempts,
             xl_ok |-> FALSE, table |-> TableOf(l)],
            [name |-> "csv", data |-> <<129>>, ok |-> {},
             xl_ok |-> FALSE, table |-> TableOf(l)]}
      [] l = "Mobile App" ->
           {[name |-> "xlsx", data |-> <<>>, ok |-> {}, xl_ok |-> TRUE, table |-> TableOf(l)],
            [name |-> "xlsx", data |-> <<>>, ok |-> {}, xl_ok |-> FALSE, table |-> TableOf(l)]}
      [] l = "Store" ->
           {[name |-> "csv", data |-> <<195, SEMICOLON, 97>>, ok |-> {<<"latin1", "auto">>},
             xl_ok |-> FALSE, table |-> TableOf(l)],
            [name |-> "csv", data |-> <<195, 129>>,
             ok |-> {<<"cp1252", "sniffed">>, <<"cp1252", "auto">>},
             xl_ok |-> FALSE, table |-> TableOf(l)]}

NoSelection == [cust |-> Unselected, ts |-> Unselected, act |-> Unselected, read |-> FALSE]

PageIdle ==
    /\ files = [l \in Range(Labels) |-> NoFile]
    /\ pc = "idle"
    /\ idx = 1
    /\ delim = NoDialect
    /\ uploaded_items = <<>>
    /\ mapped_frames = <<>>
    /\ clean_frames = <<>>
    /\ combined = NoTable
    /\ df_view = NoTable
    /\ csv = NoCsv
    /\ messages = <<>>
    /\ selection = [l \in Range(Labels) |-> NoSelection]
    /\ journey = [l \in Range(Labels) |-> <<>>]
    /\ merged = NoTable

PageInit ==
    /\ files \in [Range(Labels) -> {NoFile} \cup UNION {Uploadable(l) : l \in Range(Labels)}]
    /\ \A l \in Range(Labels) : files[l] \in {NoFile} \cup Uploadable(l)
    /\ pc = "start"
    /\ idx = 1
    /\ delim = NoDialect
    /\ uploaded_items = <<>>
    /\ mapped_frames = <<>>
    /\ clean_frames = <<>>
    /\ combined = NoTable
    /\ df_view = NoTable
    /\ csv = NoCsv
    /\ messages = <<>>
    /\ selection = [l \in Range(Labels) |-> NoSelection]
    /\ journey = [l \in Range(Labels) |-> IF files[l] = NoFile THEN <<>> ELSE <<"Uploaded">>]
    /\ merged = NoTable

-----------------------------------------------------------------------------
(* The page script, section by section *)

Msg(kind, label, text) == [kind |-> kind, label |-> label, text |-> text, n |-> 0]

\* st.stop(): nothing below runs
Stop == pc' = "stopped"

\* the stage an upload is in
Stage(l) == IF journey[l] = <<>> THEN "Absent" ELSE Last(journey[l])

\* the uploads of L move on to stage s
Staged(L, s) == [l \in Range(Labels) |-> IF l \in L THEN Append(journey[l], s) ELSE journey[l]]

\* if not (web_file or app_file or store_file): st.info, st.stop
CheckUploads ==
    /\ pc = "start"
    /\ IF \A l \in Range(Labels) : files[l] = NoFile
       THEN /\ messages' = Append(messages, Msg("info", "", <<"Please upload at least one file">>))
            /\ Stop
       ELSE /\ pc' = "load"
            /\ UNCHANGED messages
    /\ UNCHANGED <<files, idx, delim, uploaded_items, mapped_frames, clean_frames,
                   combined, df_view, csv, selection, journey, merged>>

\* for f, label in [...]: "if f" is false
LoadSkip ==
    /\ pc = "load"
    /\ idx <= Len(Labels)
    /\ files[Labels[idx]] = NoFile
    /\ idx' = idx + 1
    /\ UNCHANGED <<files, pc, delim, uploaded_items, mapped_frames, clean_frames,
                   combined, df_view, csv, messages, selection, journey, merged>>

\* try_read_table, up to delim = detect_delimiter(data_bytes[:10000])
LoadSniff ==
    /\ pc = "load"
    /\ idx <= Len(Labels)
    /\ LET label == Labels[idx]
           f == files[label]
       IN  /\ f # NoFile
           /\ ~IsExcel(f.name)
           /\ Stage(label) = "Uploaded"
           /\ \E d \in SniffOutcomes(Take(SampleText(Take(f.data, 10000)).text, 4096)) :
                 delim' = DetectDelimiter(Take(f.data, 10000), d)
           /\ journey' = Staged({label}, "Sniffed")
    /\ UNCHANGED <<files, pc, idx, uploaded_items, mapped_frames, clean_frames,
                   combined, df_view, csv, messages, selection, merged>>

\* the rest of try_read_table, and what the loop does with df, err
LoadParse ==
    /\ pc = "load"
    /\ idx <= Len(Labels)
    /\ LET label == Labels[idx]
           f == files[label]
           r == IF IsExcel(f.name) THEN ReadExcel(f) ELSE ReadText(f, 1, <<>>, <<>>)
       IN  /\ f # NoFile
           /\ IsExcel(f.name) \/ Stage(label) = "Sniffed"
           /\ IF r.err # NoError
              THEN /\ messages' = Append(messages, Msg("error", label, r.err))
                   /\ journey' = Staged({label}, "LoadFailed")
                   /\ Stop
                   /\ UNCHANGED <<idx, uploaded_items>>
              ELSE /\ messages' = Append(messages, Msg("success", label, <<"Successfully read">>))
                   /\ uploaded_items' = Append(uploaded_items,
                                               [label |-> label, df |-> r.df, fname |-> f.name])
                   /\ journey' = Staged({label}, "Parsed")
                   /\ idx' = idx + 1
                   /\ UNCHANGED pc
    /\ delim' = NoDialect
    /\ UNCHANGED <<files, mapped_frames, clean_frames, combined, df_view, csv,
                   selection, merged>>

\* the loop over the uploaders is over: on to the mapping section
LoadDone ==
    /\ pc = "load"
    /\ idx > Len(Labels)
    /\ pc' = "map"
    /\ idx' = 1
    /\ UNCHANGED <<files, delim, uploaded_items, mapped_frames, clean_frames,
                   combined, df_view, csv, messages, selection, journey, merged>>

\* one pass of "for (label, df, fname) in uploaded_items"
MapColumns ==
    /\ pc = "map"
    /\ idx <= Len(uploaded_items)
    /\ LET label == uploaded_items[idx].label
           df == uploaded_items[idx].df
       IN  \E cust \in Options(df), ts \in Options(df), act \in Options(df) :
             /\ selection' = [selection EXCEPT ![label] =
                                [cust |-> cust, ts |-> ts, act |-> act, read |-> TRUE]]
             /\ IF ~MappingValid(cust, ts, act)
                THEN /\ messages' = Append(messages,
                                           Msg("warning", label, <<"Please map all three columns">>))
                     /\ journey' = Staged({label}, "MappingFailed")
                     /\ Stop
                     /\ UNCHANGED <<idx, mapped_frames>>
                ELSE /\ mapped_frames' = Append(mapped_frames,
                                                [label |-> label, df |-> Rename(df, cust, ts, act)])
                     /\ journey' = Staged({label}, "Mapped")
                     /\ idx' = idx + 1
                     /\ UNCHANGED <<pc, messages>>
    /\ UNCHANGED <<files, delim, uploaded_items, clean_frames, combined, df_view, csv, merged>>

MapDone ==
    /\ pc = "map"
    /\ idx > Len(uploaded_items)
    /\ pc' = "standardize"
    /\ idx' = 1
    /\ UNCHANGED <<files, delim, uploaded_items, mapped_frames, clean_frames,
                   combined, df_view, csv, messages, selection, journey, merged>>

\* one pass of "for label, df in mapped_frames"
StandardizeFrame ==
    /\ pc = "standardize"
    /\ idx <= Len(mapped_frames)
    /\ LET label == mapped_frames[idx].label
           r == StandardizeDf(mapped_frames[idx].df, label)
       IN  IF r.ok
           THEN /\ clean_frames' = Append(clean_frames, r.df)
                /\ journey' = Staged({label}, "Standardized")
                /\ idx' = idx + 1
                /\ UNCHANGED <<pc, messages>>
           ELSE /\ messages' = Append(messages, Msg("error", label, r.err))
                /\ journey' = Staged({label}, "StandardizeFailed")
                /\ Stop
                /\ UNCHANGED <<idx, clean_frames>>
    /\ UNCHANGED <<files, delim, uploaded_items, mapped_frames, combined, df_view, csv,
                   selection, merged>>

\* the warnings about timestamps that did not parse
TimestampWarnings(df) ==
    LET na == {r \in 1..Len(df.rows) : IsNull(Cell(df, r, "Timestamp"))}
    IN  IF Cardinality(na) = Len(df.rows)
        THEN <<Msg("warning", "", <<"All timestamps failed to parse into datetime">>)>>
        ELSE IF Cardinality(na) > 0
        THEN <<[Msg("warning", "", <<"rows have missing/unparsed Timestamps">>)
                  EXCEPT !.n = Cardinality(na)]>>
        ELSE <<>>

\* "if not clean_frames", pd.concat and the quick validation
Merge ==
    /\ pc = "standardize"
    /\ idx > Len(mapped_frames)
    /\ IF clean_frames = <<>>
       THEN /\ messages' = Append(messages, Msg("error", "", <<"No valid dataframes after mapping.">>))
            /\ Stop
            /\ UNCHANGED <<combined, merged, journey>>
       ELSE /\ combined' = Concat(clean_frames)
            /\ merged' = combined'
            /\ messages' = messages \o TimestampWarnings(combined')
            /\ journey' = Staged({mapped_frames[i].label : i \in 1..Len(mapped_frames)}, "Merged")
            /\ pc' = "explore"
    /\ UNCHANGED <<files, idx, delim, uploaded_items, mapped_frames, clean_frames,
                   df_view, csv, selection>>

\* a faulty variant: the filters are applied to the combined table itself, not to a copy
ExploreInPlace ==
    /\ pc = "explore"
    /\ \E selected_customer \in {AllChoice} \cup UniqueCustomers(combined),
          date_range \in DateRanges(combined) :
          /\ df_view' = FilterView(combined, selected_customer, date_range)
          /\ combined' = df_view'
    /\ pc' = "download"
    /\ UNCHANGED <<files, idx, delim, uploaded_items, mapped_frames, clean_frames,
                   csv, messages, selection, journey, merged>>

\* the two filter widgets and df_view
Explore ==
    /\ pc = "explore"
    /\ \E selected_customer \in {AllChoice} \cup UniqueCustomers(combined),
          date_range \in DateRanges(combined) :
          df_view' = FilterView(combined, selected_customer, date_range)
    /\ pc' = "download"
    /\ UNCHANGED <<files, idx, delim, uploaded_items, mapped_frames, clean_frames,
                   combined, csv, messages, selection, journey, merged>>

\* csv = combined.to_csv(index=False) and the download button
Download ==
    /\ pc = "download"
    /\ csv' = ToCsv(combined)
    /\ pc' = "done"
    /\ UNCHANGED <<files, idx, delim, uploaded_items, mapped_frames, clean_frames,
                   combined, df_view, messages, selection, journey, merged>>

-----------------------------------------------------------------------------
(* Specifications *)

\* a run of the page script
Init == SniffIdle /\ ReadIdle /\ PageInit

Next ==
    \/ CheckUploads /\ UNCHANGED <<sniffVars, readVars>>
    \/ LoadSkip /\ UNCHANGED <<sniffVars, readVars>>
    \/ LoadSniff /\ UNCHANGED <<sniffVars, readVars>>
    \/ LoadParse /\ UNCHANGED <<sniffVars, readVars>>
    \/ LoadDone /\ UNCHANGED <<sniffVars, readVars>>
    \/ MapColumns /\ UNCHANGED <<sniffVars, readVars>>
    \/ MapDone /\ UNCHANGED <<sniffVars, readVars>>
    \/ StandardizeFrame /\ UNCHANGED <<sniffVars, readVars>>
    \/ Merge /\ UNCHANGED <<sniffVars, readVars>>
    \/ Explore /\ UNCHANGED <<sniffVars, readVars>>
    \/ Download /\ UNCHANGED <<sniffVars, readVars>>

Spec == Init /\ [][Next]_vars

\* detect_delimiter applied to every sample
InitSniff == SniffInit /\ ReadIdle /\ PageIdle

NextSniff == DetectDelimiterCall /\ UNCHANGED <<readVars, pageVars>>

SpecSniff == InitSniff /\ [][NextSniff]_vars

\* try_read_table applied to every file
InitRead == SniffIdle /\ ReadInit /\ PageIdle

NextRead == TryReadTableCall /\ UNCHANGED <<sniffVars, pageVars>>

SpecRead == InitRead /\ [][NextRead]_vars

-----------------------------------------------------------------------------
(* Vocabulary of the properties *)

Uploaded == {l \in Range(Labels) : files[l] # NoFile}

Built == combined # NoTable

Ended == pc \in {"done", "stopped"}

MappedFrame(l) ==
    mapped_frames[CHOOSE i \in 1..Len(mapped_frames) : mapped_frames[i].label = l].df

\* the cell of row r of the parsed file of l in the column that the mapping
\* gave the canonical name
SourceCell(l, r, name) == files[l].table.rows[r][ColIndex(MappedFrame(l), name)]

RECURSIVE PositionsFrom(_)
\* the rows of the uploaded files, source by source in the order of Labels
PositionsFrom(i) ==
    IF i > Len(Labels) THEN <<>>
    ELSE (IF files[Labels[i]] = NoFile THEN <<>>
          ELSE [r \in 1..Len(files[Labels[i]].table.rows) |-> <<Labels[i], r>>])
         \o PositionsFrom(i + 1)

Positions == PositionsFrom(1)

RowsFrom(df, l) == {k \in 1..Len(df.rows) : Cell(df, k, "Source") = Str(<<l>>)}

CsvRowsFrom(l) == {k \in 2..Len(csv) : <<l>> \in Range(csv[k])}

Unparseable(c) == c.k = "str" /\ IsNull(ToDatetime(c))

BlankCustomer(c) == IsNull(c) \/ Strip(c.s) = <<>>

\* the six read attempts, in order
AttemptOrder ==
    << <<"utf-8", "sniffed">>, <<"utf-8", "auto">>, <<"latin1", "sniffed">>,
       <<"latin1", "auto">>, <<"cp1252", "sniffed">>, <<"cp1252", "auto">> >>

Succeeds(f, a) == Decodable(a[1], f.data) /\ a \in f.ok

Failures == {"LoadFailed", "MappingFailed", "StandardizeFailed"}

Reported(l) ==
    \E i \in 1..Len(messages) : messages[i].label = l /\ messages[i].kind \in {"error", "warning"}

Incomplete(sel) == sel.read /\ Unselected \in {sel.cust, sel.ts, sel.act}

MappedLabels == {mapped_frames[i].label : i \in 1..Len(mapped_frames)}

-----------------------------------------------------------------------------
(* C1 *)

\* C1: when load, mapping and standardize succeeded for every uploaded file,
\* the combined table holds the rows of Website, then Mobile App, then Store
\* (those uploaded), each source's rows in the order of its parsed file.
C1_MergeKeepsSourceAndRowOrder ==
    Built =>
      /\ Len(combined.rows) = Len(Positions)
      /\ \A k \in 1..Len(Positions) :
           LET l == Positions[k][1]
               r == Positions[k][2]
           IN  /\ Cell(combined, k, "Source") = Str(<<l>>)
               /\ Cell(combined, k, "CustomerID") = Str(Strip(AsTypeStr(SourceCell(l, r, "CustomerID"))))
               /\ Cell(combined, k, "Activity") = Str(Strip(AsTypeStr(SourceCell(l, r, "Activity"))))
               /\ Cell(combined, k, "Timestamp") = ToDatetime(SourceCell(l, r, "Timestamp"))

C1_Witness ==
    /\ pc = "done"
    /\ Uploaded = Range(Labels)
    /\ \A l \in Range(Labels) : Cardinality(RowsFrom(combined, l)) >= 2

-----------------------------------------------------------------------------
(* C2 *)

\* C2: no row whose CustomerID is null or blank in the source file appears in
\* the combined table: of every source the table holds exactly the rows whose
\* CustomerID is neither.
C2_NoBlankCustomerInCombined ==
    Built =>
      \A l \in Uploaded :
        Cardinality(RowsFrom(combined, l)) =
          Cardinality({r \in 1..Len(files[l].table.rows) :
                         ~BlankCustomer(SourceCell(l, r, "CustomerID"))})

-----------------------------------------------------------------------------
(* C3 *)

\* no way of reading the file of l works
LoadFails(l) ==
    IF files[l].name \in {"xls", "xlsx"} THEN ~files[l].xl_ok
    ELSE \A i \in 1..Len(AttemptOrder) : ~Succeeds(files[l], AttemptOrder[i])

StandardizeFails(l) ==
    /\ selection[l].read
    /\ ~Incomplete(selection[l])
    /\ ~StandardizeDf(Rename(files[l].table, selection[l].cust, selection[l].ts,
                             selection[l].act), l).ok

\* C3: an upload whose read gives an error, whose mapping is incomplete or
\* whose standardize raises has no row in the combined table nor in the
\* download, and the error of an upload that failed is reported under its label.
C3_FailedUploadContributesNothing ==
    \A l \in Uploaded :
      /\ (LoadFails(l) \/ Incomplete(selection[l]) \/ StandardizeFails(l)) =>
           /\ RowsFrom(combined, l) = {}
           /\ CsvRowsFrom(l) = {}
      /\ Stage(l) \in Failures => Reported(l) /\ ~Built /\ csv = NoCsv

C3_Witness ==
    /\ pc = "stopped"
    /\ Stage("Website") = "Standardized"
    /\ Stage("Store") = "StandardizeFailed"
    /\ StandardizeFails("Store")

-----------------------------------------------------------------------------
(* C4 *)

\* C4: for a file that is no spreadsheet, the attempts made are the first n of
\* the fixed order; with a table returned, the n-th is the first that succeeds;
\* with an error returned, it is "Failed to parse" with the error recorded last
\* (that of the cp1252 attempt with the sniffed delimiter) and all six failed.
C4_AttemptsInOrderUntilFirstSuccess ==
    (read_result.done /\ ~(uploaded_file.name \in {"xls", "xlsx"})) =>
      LET a == read_result.attempts
          n == Len(a)
      IN  /\ n >= 1 /\ n <= Len(AttemptOrder)
          /\ a = SubSeq(AttemptOrder, 1, n)
          /\ \A i \in 1..(n - 1) : ~Succeeds(uploaded_file, a[i])
          /\ IF read_result.err = NoError
             THEN /\ Succeeds(uploaded_file, a[n])
                  /\ read_result.df = uploaded_file.table
             ELSE /\ n = Len(AttemptOrder)
                  /\ ~Succeeds(uploaded_file, a[n])
                  /\ read_result.df = NoTable
                  /\ read_result.err = <<"Failed to parse file. Last error">>
                        \o (IF Decodable("cp1252", uploaded_file.data)
                            THEN <<"ParserError", "cp1252", "sniffed">>
                            ELSE <<"UnicodeDecodeError", "cp1252">>)

C4_Witness ==
    /\ read_result.done
    /\ uploaded_file.name = "csv"
    /\ read_result.err = NoError
    /\ read_result.attempts = SubSeq(AttemptOrder, 1, 4)
    /\ ~Decodable("utf-8", uploaded_file.data)

-----------------------------------------------------------------------------
(* C5 *)

\* C5: when the sniffer yields no dialect, detect_delimiter returns the first
\* of ",", ";", tab, "|" that occurs in the decoded sample, and "," when none
\* does (so also for the empty sample).
C5_FallbackPicksFirstCandidatePresent ==
    (sniffed.done /\ dialect = NoDialect) =>
      LET text == Range(SampleText(sample_bytes).text)
      IN  sniffed.delim = (IF 44 \in text THEN 44
                           ELSE IF 59 \in text THEN 59
                           ELSE IF 9 \in text THEN 9
                           ELSE IF 124 \in text THEN 124
                           ELSE 44)

C5_Witness ==
    /\ sniffed.done
    /\ dialect = NoDialect
    /\ 59 \in Range(sample_bytes)
    /\ 124 \in Range(sample_bytes)
    /\ ~(44 \in Range(sample_bytes))
    /\ sniffed.delim = 59

-----------------------------------------------------------------------------
(* C6 *)

\* C6: when one of the three selectors read for an upload is "--Select--", the
\* run stops at the mapping of that upload with a warning under its label: no
\* renamed table of it, no combined table, no view and no download exist.
C6_MissingSelectionStopsTheRun ==
    \A l \in Uploaded :
      Incomplete(selection[l]) =>
        /\ pc = "stopped"
        /\ Stage(l) = "MappingFailed"
        /\ Last(messages) = Msg("warning", l, <<"Please map all three columns">>)
        /\ l \notin MappedLabels
        /\ clean_frames = <<>>
        /\ combined = NoTable /\ df_view = NoTable /\ csv = NoCsv

C6_Witness ==
    /\ Incomplete(selection["Mobile App"])
    /\ selection["Mobile App"].cust # Unselected
    /\ "Website" \in MappedLabels
    /\ pc = "stopped"

-----------------------------------------------------------------------------
(* C7 *)

WellMapped(df) == \A c \in Range(Canonical) : Cardinality(ColIndices(df, c)) = 1

-----------------------------------------------------------------------------
(* C8 *)

MainPath == <<"Uploaded", "Sniffed", "Parsed", "Mapped", "Standardized", "Merged">>

IsPrefix(a, b) == Len(a) <= Len(b) /\ \A i \in 1..Len(a) : a[i] = b[i]

Front(j) == SubSeq(j, 1, Len(j) - 1)

Surfaced(l) ==
    /\ messages # <<>>
    /\ Last(messages).label = l
    /\ Last(messages).kind \in {"error", "warning"}
    /\ Last(messages).text # <<>>

\* C8 as claimed: every uploaded file goes through the stages of MainPath in
\* order, skipping none, and at the end of every run is Merged or in one
\* failure state with its error surfaced.
C8_EveryUploadEndsMergedOrFailed ==
    \A l \in Uploaded :
      /\ \/ IsPrefix(journey[l], MainPath)
         \/ Last(journey[l]) \in Failures /\ IsPrefix(Front(journey[l]), MainPath)
      /\ Ended =>
           \/ Stage(l) = "Merged"
           \/ Stage(l) \in Failures /\ Surfaced(l)

\* the stages in the order the script takes them: a spreadsheet is never sniffed
PathOf(l) ==
    IF files[l].name \in {"xls", "xlsx"}
    THEN <<"Uploaded", "Parsed", "Mapped", "Standardized", "Merged">>
    ELSE MainPath

\* the failure state an upload in stage s can go to
FailureOf(l, s) ==
    CASE s = PathOf(l)[Len(PathOf(l)) - 4] -> "LoadFailed"
      [] s = "Parsed" -> "MappingFailed"
      [] s = "Mapped" -> "StandardizeFailed"
      [] OTHER -> "none"

\* C8 as amended: an uploaded file goes through Uploaded, Sniffed, Parsed,
\* Mapped, Standardized, Merged in order, a spreadsheet from Uploaded straight
\* to Parsed; a run ends with every uploaded file Merged, or with exactly one
\* of them in the failure state of the stage it was in, its error and label
\* surfaced, and the others where they were, none Merged.
C8_JourneyUntilFirstFailure ==
    /\ \A l \in Uploaded :
         \/ IsPrefix(journey[l], PathOf(l))
         \/ /\ Len(journey[l]) >= 2
            /\ IsPrefix(Front(journey[l]), PathOf(l))
            /\ Last(journey[l]) = FailureOf(l, Last(Front(journey[l])))
    /\ pc = "done" => \A l \in Uploaded : Stage(l) = "Merged"
    /\ (pc = "stopped" /\ Uploaded # {}) =>
         /\ Cardinality({l \in Uploaded : Stage(l) \in Failures}) = 1
         /\ \A l \in Uploaded :
              /\ Stage(l) # "Merged"
              /\ Stage(l) \in Failures => Surfaced(l)

C8_Witness ==
    /\ pc = "stopped"
    /\ journey["Website"] = <<"Uploaded", "Sniffed", "Parsed", "Mapped", "Standardized">>
    /\ journey["Mobile App"] = <<"Uploaded", "Parsed", "Mapped", "StandardizeFailed">>
    /\ journey["Store"] = <<"Uploaded", "Sniffed", "Parsed", "Mapped">>

-----------------------------------------------------------------------------
(* C9 *)

\* C9: the filters leave the combined table as pd.concat returned it, whatever
\* customer and dates are chosen, and the download is the serialization of that
\* whole table, one line per row after the header.
C9_FiltersLeaveCombinedUntouched ==
    /\ pc \in {"explore", "download", "done"} => combined = merged /\ merged # NoTable
    /\ pc = "done" =>
         /\ Len(csv) = Len(merged.rows) + 1
         /\ csv[1] = merged.cols
         /\ \A k \in 1..Len(merged.rows) :
              \A i \in 1..Len(merged.cols) : csv[k + 1][i] = CellText(merged.rows[k][i])

C9_Witness ==
    /\ pc = "done"
    /\ Len(df_view.rows) >= 1
    /\ Len(df_view.rows) < Len(combined.rows)
    /\ Len(csv) = Len(combined.rows) + 1

-----------------------------------------------------------------------------
(* C10 *)

\* the canonical fields whose selected column was also selected for a later field
Lost(sel) ==
    {n \in {"CustomerID", "Timestamp"} :
       IF n = "CustomerID" THEN sel.cust \in {sel.ts, sel.act} ELSE sel.ts = sel.act}

SelectedFor(sel, n) == IF n = "CustomerID" THEN sel.cust ELSE sel.ts

\* some lost canonical name is borne by no other column of the parsed table
NoOtherBearer(l) ==
    \E n \in Lost(selection[l]) :
      \A c \in Range(files[l].table.cols) : c = n => c = SelectedFor(selection[l], n)

Standardizing(l) == Stage(l) \in {"Standardized", "StandardizeFailed", "Merged"}

\* C10: a column selected for several canonical fields is renamed to the last
\* of them; when a canonical name is lost this way and no other column bears
\* it, standardize raises "Required columns missing after mapping.", the run
\* stops with that error under the source's label and no combined table; every
\* table a combined table is built from carries the three canonical columns.
C10_DuplicateSelectionHalts ==
    /\ \A i \in 1..Len(mapped_frames) :
         LET l == mapped_frames[i].label
             sel == selection[l]
             old == files[l].table.cols
             new == mapped_frames[i].df.cols
         IN  /\ Len(new) = Len(old)
             /\ \A j \in 1..Len(old) :
                  new[j] = (IF old[j] = sel.act THEN "Activity"
                            ELSE IF old[j] = sel.ts THEN "Timestamp"
                            ELSE IF old[j] = sel.cust THEN "CustomerID"
                            ELSE old[j])
             /\ (Lost(sel) # {} /\ NoOtherBearer(l) /\ Standardizing(l)) =>
                  /\ Stage(l) = "StandardizeFailed"
                  /\ pc = "stopped"
                  /\ Last(messages) = Msg("error", l, <<"Required columns missing after mapping.">>)
                  /\ ~Built /\ csv = NoCsv
             /\ Built => \A c \in Range(Canonical) : c \in Range(new)
    /\ Built => Len(mapped_frames) = Cardinality(Uploaded)

C10_Witness ==
    /\ pc = "stopped"
    /\ Stage("Website") = "Standardized"
    /\ Stage("Store") = "StandardizeFailed"
    /\ selection["Store"].cust = "CustomerID" /\ selection["Store"].ts = "CustomerID"
    /\ selection["Store"].act = "what"
    /\ NoOtherBearer("Store")

====
